---- MODULE Spec2Model ----
(***************************************************************************)
(* Model of the blog application's read pipeline (mysite/blog): the        *)
(* published-posts manager, the post_list and post_detail views, the       *)
(* similar-posts ranking and the sidebar template tags.                    *)
(*                                                                         *)
(* Strings are sequences of one-character strings, so that stripping,      *)
(* integer parsing and trigram extraction are computed and not assumed.    *)
(* An optional value (a missing GET parameter, Python's None) is the empty *)
(* sequence, a present value v is the one-element sequence <<v>>.          *)
(***************************************************************************)
EXTENDS Integers, Sequences, FiniteSets, TLC

VARIABLES posts, comments, now, response

vars == <<posts, comments, now, response>>

(***************************************************************************)
(* Bounds of the model.                                                    *)
(***************************************************************************)
\* posts in the repository under Spec (all read paths) and SpecCall
MaxPosts == 3
\* posts in the repository under SpecPage (paginated listings)
MaxPagePosts == 5
\* posts in the repository under SpecSearch (text query)
MaxSearchPosts == 3
\* posts in the repository under SpecDetail (detail view, similar posts)
MaxDetailPosts == 6
\* posts and comments in the repository under SpecComments
MaxCommentPosts == 2
MaxComments == 3
\* posts in the repository under SpecArchive (the archive widget)
MaxArchivePosts == 4

None == <<>>
Some(v) == <<v>>

(***************************************************************************)
(* Date-times.  A timestamp is a record of calendar fields; Stamp orders   *)
(* them chronologically.                                                   *)
(***************************************************************************)
DT(y, m, d, h) == [year |-> y, month |-> m, day |-> d, hour |-> h]

Stamp(t) == ((t.year * 12 + (t.month - 1)) * 31 + (t.day - 1)) * 24 + t.hour

\* the sample of timestamps posts are published at and the clock runs through
T0 == DT(2019, 3, 1, 0)
T1 == DT(2020, 2, 1, 0)
T2 == DT(2020, 3, 1, 0)
T2b == DT(2020, 3, 1, 1)
T3 == DT(2020, 3, 2, 0)
T4 == DT(2020, 4, 1, 0)

\* the clock starts at T3 and may advance to T4
Clock == <<T3, T4>>

(***************************************************************************)
(* Strings.                                                                *)
(***************************************************************************)
Digits == <<"0", "1", "2", "3", "4", "5", "6", "7", "8", "9">>

IsDigit(c) == \E i \in 1..Len(Digits) : Digits[i] = c

DigitValue(c) == (CHOOSE i \in 1..Len(Digits) : Digits[i] = c) - 1

IsSpace(c) == c = " "

Upper == <<"A", "S", "P">>
LowerOf == <<"a", "s", "p">>

\* str.lower() on one character
Lower(c) == IF \E i \in 1..Len(Upper) : Upper[i] = c
            THEN LowerOf[CHOOSE i \in 1..Len(Upper) : Upper[i] = c]
            ELSE c

IsAlnum(c) == ~IsSpace(c) /\ c # "-" /\ c # "." /\ c # "+"

RECURSIVE LStrip(_)
LStrip(s) == IF s # <<>> /\ IsSpace(Head(s)) THEN LStrip(Tail(s)) ELSE s

RECURSIVE RStrip(_)
RStrip(s) == IF s # <<>> /\ IsSpace(s[Len(s)])
             THEN RStrip(SubSeq(s, 1, Len(s) - 1))
             ELSE s

\* str.strip()
Strip(s) == RStrip(LStrip(s))

\* int(s) of Python on a string: surrounding whitespace is ignored, one sign
\* is allowed, the rest must be one or more decimal digits.  None stands
\* for the ValueError.
RECURSIVE DigitsValue(_, _)
DigitsValue(s, acc) ==
    IF s = <<>> THEN acc
    ELSE DigitsValue(Tail(s), acc * 10 + DigitValue(Head(s)))

AllDigits(s) == s # <<>> /\ \A i \in 1..Len(s) : IsDigit(s[i])

PyInt(s) ==
    LET t == Strip(s)
        signed == t # <<>> /\ (Head(t) = "-" \/ Head(t) = "+")
        body == IF signed THEN Tail(t) ELSE t
    IN  IF ~AllDigits(body) THEN None
        ELSE IF signed /\ Head(t) = "-" THEN Some(0 - DigitsValue(body, 0))
        ELSE Some(DigitsValue(body, 0))

(***************************************************************************)
(* Trigram similarity of two strings (pg_trgm's similarity(), which        *)
(* TrigramSimilarity evaluates): the strings are lower-cased and cut into  *)
(* words of alphanumeric characters, each word is padded with two blanks   *)
(* in front and one behind, and the score is the number of shared trigrams *)
(* over the number of distinct trigrams of both.  The score is kept as the *)
(* exact fraction <<shared, total>>.                                       *)
(***************************************************************************)
RECURSIVE WordsOf(_, _)
WordsOf(s, cur) ==
    LET done == IF cur = <<>> THEN {} ELSE {cur}
    IN  IF s = <<>> THEN done
        ELSE IF IsAlnum(Head(s))
             THEN WordsOf(Tail(s), Append(cur, Lower(Head(s))))
             ELSE done \cup WordsOf(Tail(s), <<>>)

WordTrigrams(w) ==
    LET padded == <<" ", " ">> \o w \o <<" ">>
    IN  {SubSeq(padded, i, i + 2) : i \in 1..(Len(padded) - 2)}

Trigrams(s) == UNION {WordTrigrams(w) : w \in WordsOf(s, <<>>)}

Similarity(a, b) ==
    LET A == Trigrams(a)
        B == Trigrams(b)
    IN  IF A = {} \/ B = {} THEN <<0, 1>>
        ELSE <<Cardinality(A \cap B), Cardinality(A \cup B)>>

\* x > y on fractions
FracGt(x, y) == x[1] * y[2] > y[1] * x[2]

\* the threshold of the search filter: similarity__gt=0.1
Threshold == <<1, 10>>

(***************************************************************************)
(* Ordering.  order_by fixes the order of rows with different keys only;   *)
(* rows with equal keys come in whatever order the database produces, so   *)
(* an ordered queryset is any linearisation of the key order.  before is   *)
(* the set of pairs <<a, b>> where a must come before b.                   *)
(***************************************************************************)
RECURSIVE Linearisations(_, _)
Linearisations(S, before) ==
    IF S = {} THEN {<<>>}
    ELSE UNION {{<<m>> \o rest : rest \in Linearisations(S \ {m}, before)} :
                m \in {x \in S : \A y \in S : <<y, x>> \notin before}}

\* the elements of a sequence
Range(s) == {s[i] : i \in 1..Len(s)}

IsSorted(s, before) ==
    \A i, j \in 1..Len(s) : i < j => <<s[j], s[i]>> \notin before

(***************************************************************************)
(* The repository.  posts is the Post table in order of creation: the id   *)
(* of a post is its index.  A post has a title, a slug, a publish          *)
(* timestamp and a set of tags (tags are named by their slug).             *)
(***************************************************************************)
Ids == 1..Len(posts)

\* Post.objects / Post.published: the ids of the posts the manager returns
PublishedAll == Ids

Published == {i \in Ids : Stamp(posts[i].publish) <= Stamp(now)}

\* taggit keeps a Tag row for every tag that was ever added to a post
TagExists(slug) == \E i \in Ids : slug \in posts[i].tags

\* Meta.ordering = ("-publish",)
PublishOrder(S) ==
    {<<a, b>> \in S \X S : Stamp(posts[a].publish) > Stamp(posts[b].publish)}

(***************************************************************************)
(* django.core.paginator.Paginator(object_list, 4), as post_list uses it.  *)
(***************************************************************************)
PerPage == 4

\* Paginator.num_pages, with allow_empty_first_page and no orphans
NumPages(count) ==
    IF count = 0 THEN 1 ELSE (count + PerPage - 1) \div PerPage

\* Paginator.validate_number: the exception it raises, or the page number
ValidateNumberNoLower(page, count) ==
    LET n == IF page = None THEN None ELSE PyInt(page[1])
    IN  IF n = None \/ n[1] < 1
        THEN [exc |-> "PageNotAnInteger", number |-> 0]
        ELSE IF n[1] > NumPages(count) THEN [exc |-> "EmptyPage", number |-> 0]
        ELSE [exc |-> "", number |-> n[1]]

ValidateNumber(page, count) ==
    LET n == IF page = None THEN None ELSE PyInt(page[1])
    IN  IF n = None THEN [exc |-> "PageNotAnInteger", number |-> 0]
        ELSE IF n[1] < 1 THEN [exc |-> "EmptyPage", number |-> 0]
        ELSE IF n[1] > NumPages(count) THEN [exc |-> "EmptyPage", number |-> 0]
        ELSE [exc |-> "", number |-> n[1]]

\* Paginator.page(number) for a valid number: object_list[bottom:top]
PageItemsOverlap(object_list, number) ==
    LET bottom == (number - 1) * PerPage
        top == IF bottom + PerPage + 1 >= Len(object_list)
               THEN Len(object_list) ELSE bottom + PerPage + 1
    IN  SubSeq(object_list, bottom + 1, top)

PageItems(object_list, number) ==
    LET bottom == (number - 1) * PerPage
        top == IF bottom + PerPage >= Len(object_list)
               THEN Len(object_list) ELSE bottom + PerPage
    IN  SubSeq(object_list, bottom + 1, top)

\* Page.has_previous / Page.has_next
HasPrevious(number) == number > 1

HasNext(number, count) == number < NumPages(count)

(***************************************************************************)
(* SearchForm: one required CharField, which strips the value before it    *)
(* checks that it is not empty.                                            *)
(***************************************************************************)
SearchFormClean(value) == Strip(value)

SearchFormIsValid(value) == SearchFormClean(value) # <<>>

(***************************************************************************)
(* Requests and responses.  A request carries the route's keyword          *)
(* arguments (tag_slug, year, month, day, post), the GET parameters query  *)
(* and page, the method and the X-Requested-With flag (is_ajax).  A        *)
(* response records the view, the request, the status, the template that   *)
(* was rendered ("" for a bare HttpResponse) and the template context.     *)
(***************************************************************************)
Request(tag_slug, year, month, day, post, query, page, method, form, ajax) ==
    [tag_slug |-> tag_slug, year |-> year, month |-> month, day |-> day,
     post |-> post, query |-> query, page |-> page, method |-> method,
     form |-> form, ajax |-> ajax]

NoRequest ==
    Request(None, None, None, None, None, None, None, "", None, FALSE)

NoResponse ==
    [view |-> "", request |-> NoRequest, status |-> 0, reason |-> "",
     template |-> "", posts |-> <<>>, number |-> 0, num_pages |-> 0,
     has_previous |-> FALSE, has_next |-> FALSE,
     total_results |-> None, tag |-> None, date |-> None, query |-> None,
     post |-> None, similar_posts |-> <<>>, comments |-> <<>>,
     new_comment |-> None, latest_posts |-> <<>>, dates |-> <<>>]

\* raise Http404(reason): Django answers 404
Http404(view, request, reason) ==
    [NoResponse EXCEPT !.view = view, !.request = request, !.status = 404,
                       !.reason = reason]

\* any other exception that leaves the view: Django answers 500
ServerError(view, request, exception) ==
    [NoResponse EXCEPT !.view = view, !.request = request, !.status = 500,
                       !.reason = exception]

\* Python truth of an optional integer, and of an optional slug (the slug
\* converter of the route never yields an empty string)
TruthyInt(opt) == opt # None /\ opt[1] # 0

TruthyStr(opt) == opt # None

\* datetime.datetime(year, month, day=1) raises ValueError outside these
MINYEAR == 1
MAXYEAR == 9999

ValidDate(year, month) ==
    /\ MINYEAR <= year /\ year <= MAXYEAR
    /\ 1 <= month /\ month <= 12

(***************************************************************************)
(* post_list                                                               *)
(***************************************************************************)
\* posts.filter(publish__year=date.year, publish__month=date.month)
FilterByDate(S, date) ==
    {i \in S : posts[i].publish.year = date.year
               /\ posts[i].publish.month = date.month}

\* posts.filter(tags__in=[tag])
FilterByTagNone(S, tag) == S

FilterByTag(S, tag) == {i \in S : tag \in posts[i].tags}

\* posts.annotate(similarity=TrigramSimilarity("title", query))
\*      .filter(similarity__gt=0.1)
FilterBySimilarityGe(S, query) ==
    {i \in S : ~FracGt(Threshold, Similarity(posts[i].title, query))}

FilterBySimilarity(S, query) ==
    {i \in S : FracGt(Similarity(posts[i].title, query), Threshold)}

\* .order_by("-similarity")
SimilarityOrder(S, query) ==
    {<<a, b>> \in S \X S :
        FracGt(Similarity(posts[a].title, query),
               Similarity(posts[b].title, query))}

\* total_results = posts.count(), taken before the pagination
TotalResultsOfPage(result) ==
    IF Cardinality(result) > PerPage THEN PerPage ELSE Cardinality(result)

TotalResults(result) == Cardinality(result)

\* the pagination block of post_list and its two render calls
ListPage(request, ctx, object_list, number) ==
    LET page == [ctx EXCEPT !.status = 200,
                            !.posts = PageItems(object_list, number),
                            !.number = number,
                            !.num_pages = NumPages(Len(object_list)),
                            !.has_previous = HasPrevious(number),
                            !.has_next = HasNext(number, Len(object_list))]
    IN  IF request.ajax
        THEN [page EXCEPT !.template = "blog/post/list_ajax.html",
                          !.total_results = None, !.tag = None,
                          !.date = None, !.query = None]
        ELSE [page EXCEPT !.template = "blog/post/list.html"]

PaginateFirstOnEmpty(request, ctx, object_list) ==
    LET v == ValidateNumber(request.page, Len(object_list))
    IN  IF v.exc = "" THEN ListPage(request, ctx, object_list, v.number)
        ELSE ListPage(request, ctx, object_list, 1)

PaginateAjaxOnNonInteger(request, ctx, object_list) ==
    LET v == ValidateNumber(request.page, Len(object_list))
    IN  IF v.exc # "" /\ request.ajax
        THEN [ctx EXCEPT !.status = 200, !.total_results = None,
                         !.tag = None, !.date = None, !.query = None]
        ELSE IF v.exc = "PageNotAnInteger"
        THEN ListPage(request, ctx, object_list, 1)
        ELSE IF v.exc = "EmptyPage"
        THEN ListPage(request, ctx, object_list, NumPages(Len(object_list)))
        ELSE ListPage(request, ctx, object_list, v.number)

Paginate(request, ctx, object_list) ==
    LET v == ValidateNumber(request.page, Len(object_list))
    IN  IF v.exc = "PageNotAnInteger"
        THEN ListPage(request, ctx, object_list, 1)
        ELSE IF v.exc = "EmptyPage"
        THEN IF request.ajax
             THEN \* return HttpResponse("")
                  [ctx EXCEPT !.status = 200, !.total_results = None,
                              !.tag = None, !.date = None, !.query = None]
             ELSE ListPage(request, ctx, object_list,
                           NumPages(Len(object_list)))
        ELSE ListPage(request, ctx, object_list, v.number)

\* the responses post_list can give to a request in the current state: one
\* for each order the database may return the result set in
post_list(request) ==
    LET byDate == TruthyInt(request.year) /\ TruthyInt(request.month)
        byTag == ~byDate /\ TruthyStr(request.tag_slug)
        date == IF byDate
                THEN Some(DT(request.year[1], request.month[1], 1, 0))
                ELSE None
        tag == IF byTag THEN request.tag_slug ELSE None
        base == IF byDate THEN FilterByDate(Published, date[1])
                ELSE IF byTag THEN FilterByTag(Published, tag[1])
                ELSE Published
        searched == request.query # None
        query == IF searched /\ SearchFormIsValid(request.query[1])
                 THEN Some(SearchFormClean(request.query[1]))
                 ELSE None
        result == IF query # None THEN FilterBySimilarity(base, query[1])
                  ELSE base
        order == IF query # None THEN SimilarityOrder(result, query[1])
                 ELSE PublishOrder(result)
        ctx == [NoResponse EXCEPT !.view = "post_list",
                                  !.request = request,
                                  !.tag = tag, !.date = date,
                                  !.query = query,
                                  !.total_results = Some(TotalResults(result))]
    IN  IF byDate /\ ~ValidDate(request.year[1], request.month[1])
        THEN {ServerError("post_list", request, "ValueError")}
        ELSE IF byTag /\ ~TagExists(request.tag_slug[1])
        THEN {Http404("post_list", request, "No Tag matches the given query.")}
        ELSE IF searched /\ query = None
        THEN {Http404("post_list", request, "Invalid search")}
        ELSE {Paginate(request, ctx, object_list) :
                object_list \in Linearisations(result, order)}

(***************************************************************************)
(* Post.get_similar_posts                                                  *)
(***************************************************************************)
MaxSimilar == 4

\* annotate(same_tags=Count("tags")) on the rows that filter(tags__in=...)
\* kept: the join rows of post i whose tag is one of the reference's tags
SameTagsAll(id, i) == Cardinality(posts[i].tags)

SameTags(id, i) == Cardinality(posts[i].tags \cap posts[id].tags)

\* Post.published.filter(tags__in=post_tags_ids).exclude(id=self.id)
SimilarCandidates(id) ==
    {i \in Published \ {id} : posts[i].tags \cap posts[id].tags # {}}

\* .order_by("-same_tags", "-publish")
SimilarOrder(id, S) ==
    {<<a, b>> \in S \X S :
        \/ SameTags(id, a) > SameTags(id, b)
        \/ /\ SameTags(id, a) = SameTags(id, b)
           /\ Stamp(posts[a].publish) > Stamp(posts[b].publish)}

\* queryset[:n]
FirstN(s, n) == SubSeq(s, 1, IF Len(s) < n THEN Len(s) ELSE n)

get_similar_postsUncut(id) ==
    Linearisations(SimilarCandidates(id),
                   SimilarOrder(id, SimilarCandidates(id)))

get_similar_posts(id) ==
    {FirstN(ranked, MaxSimilar) :
        ranked \in Linearisations(SimilarCandidates(id),
                                  SimilarOrder(id, SimilarCandidates(id)))}

(***************************************************************************)
(* Comments.  comments is the Comment table in order of creation.          *)
(***************************************************************************)
CommentIds == 1..Len(comments)

\* Comment.Meta.ordering = ("-created",)
CreatedOrder(S) ==
    {<<a, b>> \in S \X S :
        Stamp(comments[a].created) > Stamp(comments[b].created)}

\* Post.get_active_comments: self.comments.filter(active=True)
get_active_commentsAll(id) ==
    LET S == {c \in CommentIds : comments[c].post = id}
    IN  Linearisations(S, CreatedOrder(S))

get_active_comments(id) ==
    LET S == {c \in CommentIds : comments[c].post = id /\ comments[c].active}
    IN  Linearisations(S, CreatedOrder(S))

(***************************************************************************)
(* CommentForm: name (at most 80 characters), email and body are required; *)
(* the text fields are stripped first.                                     *)
(***************************************************************************)
NameMaxLength == 80

\* EmailValidator, reduced to its shape: one "@" after a non-empty user
\* part, then a domain with a dot inside it, and no blank anywhere
EmailIsValid(e) ==
    /\ Cardinality({i \in 1..Len(e) : e[i] = "@"}) = 1
    /\ e[1] # "@"
    /\ \A i \in 1..Len(e) : ~IsSpace(e[i])
    /\ LET at == CHOOSE i \in 1..Len(e) : e[i] = "@"
       IN  /\ \E i \in (at + 2)..(Len(e) - 1) : e[i] = "."
           /\ e[at + 1] # "." /\ e[Len(e)] # "."

CommentFormIsValid(data) ==
    /\ Strip(data.name) # <<>> /\ Len(Strip(data.name)) <= NameMaxLength
    /\ Strip(data.email) # <<>> /\ EmailIsValid(Strip(data.email))
    /\ Strip(data.body) # <<>>

(***************************************************************************)
(* post_detail                                                             *)
(***************************************************************************)
\* the rows get_object_or_404(Post, slug=post, publish__lte=timezone.now(),
\* publish__year=year, publish__month=month, publish__day=day) looks at
DetailMatches(request) ==
    {i \in Ids :
        /\ posts[i].slug = request.post[1]
        /\ Stamp(posts[i].publish) <= Stamp(now)
        /\ posts[i].publish.year = request.year[1]
        /\ posts[i].publish.month = request.month[1]
        /\ posts[i].publish.day = request.day[1]}

\* the responses post_detail can give to a request in the current state
post_detail(request) ==
    LET found == DetailMatches(request)
        id == CHOOSE i \in found : TRUE
        posted == request.method = "POST"
        data == IF request.form = None
                THEN [name |-> <<>>, email |-> <<>>, body |-> <<>>]
                ELSE request.form[1]
    IN  IF found = {}
        THEN {Http404("post_detail", request,
                      "No Post matches the given query.")}
        ELSE IF Cardinality(found) > 1
        THEN {ServerError("post_detail", request, "MultipleObjectsReturned")}
        ELSE IF posted /\ CommentFormIsValid(data)
        THEN \* new_comment is None here: new_comment.save() raises
             {ServerError("post_detail", request, "AttributeError")}
        ELSE {[NoResponse EXCEPT !.view = "post_detail",
                                 !.request = request,
                                 !.status = 200,
                                 !.template = "blog/post/detail.html",
                                 !.post = Some(id),
                                 !.comments = shown,
                                 !.new_comment = None,
                                 !.similar_posts = similar] :
                similar \in get_similar_posts(id),
                shown \in get_active_comments(id)}

(***************************************************************************)
(* Template tags of the sidebar                                            *)
(***************************************************************************)
LatestCount == 5

\* show_latest_posts(count=5): Post.published.order_by("-publish")[:count]
show_latest_posts ==
    {[NoResponse EXCEPT !.view = "show_latest_posts", !.status = 200,
                        !.template = "blog/post/latest_posts.html",
                        !.latest_posts = FirstN(ordered, LatestCount)] :
        ordered \in Linearisations(Published, PublishOrder(Published))}

\* show_archives: Post.published.dates("publish", "month", order="DESC"),
\* the distinct months of the published posts, latest first
show_archivesPerPost ==
    {[NoResponse EXCEPT !.view = "show_archives", !.status = 200,
                        !.template = "blog/post/archives.html",
                        !.dates = [k \in 1..Len(ordered) |->
                                     DT(posts[ordered[k]].publish.year,
                                        posts[ordered[k]].publish.month,
                                        1, 0)]] :
        ordered \in Linearisations(Published, PublishOrder(Published))}

show_archives ==
    LET months == {DT(posts[i].publish.year, posts[i].publish.month, 1, 0) :
                     i \in Published}
        desc == {<<a, b>> \in months \X months : Stamp(a) > Stamp(b)}
    IN  {[NoResponse EXCEPT !.view = "show_archives", !.status = 200,
                            !.template = "blog/post/archives.html",
                            !.dates = ordered] :
            ordered \in Linearisations(months, desc)}

(***************************************************************************)
(* The inputs the model draws from.                                        *)
(***************************************************************************)
Str1(a) == <<a>>
Str2(a, b) == <<a, b>>
Str3(a, b, c) == <<a, b, c>>

\* titles: compared with the query "a" they score 1, 1/4, 1/10, 1/11 and 0
TitleA == <<"A">>
TitleAb == <<"a", "b">>
TitleAh == <<"a", "b", "c", "d", "e", "f", "g", "h">>
TitleAi == <<"a", "b", "c", "d", "e", "f", "g", "h", "i">>
TitleX == <<"x">>

Titles == <<TitleA, TitleAb, TitleAh, TitleAi, TitleX>>

TagNames == <<"foo", "bar">>

\* page tokens: absent, "", "abc", "2.0", " 2", "0", "-1", "1", "2", "3"
NonIntegerPages ==
    {None, Some(<<>>), Some(Str3("a", "b", "c")), Some(Str3("2", ".", "0"))}

IntegerPages ==
    {Some(Str1("0")), Some(Str2("-", "1")), Some(Str1("1")),
     Some(Str1("2")), Some(Str2(" ", "2")), Some(Str1("3"))}

PageTokens == NonIntegerPages \cup IntegerPages

\* query parameters: absent, "", " ", "a", " a ", "q"
InvalidQueries == {Some(<<>>), Some(Str1(" "))}

ValidQueries == {Some(Str1("a")), Some(Str3(" ", "a", " ")), Some(Str1("q"))}

Queries == {None} \cup InvalidQueries \cup ValidQueries

\* the keyword arguments the three post_list routes can supply
MainRoute == [tag_slug |-> None, year |-> None, month |-> None]

TagRoutes == {[tag_slug |-> Some(t), year |-> None, month |-> None] :
                t \in {"foo", "bar", "baz"}}

DateRoutes == {[tag_slug |-> None, year |-> Some(y), month |-> Some(m)] :
                 y \in {0, 2020, 2021, 10000}, m \in {0, 3, 4, 13}}

ListRequest(route, query, page, ajax) ==
    Request(route.tag_slug, route.year, route.month, None, None, query, page,
            "GET", None, ajax)

\* the comment forms a POST to post_detail submits: blank, complete, and
\* complete but for a malformed e-mail address
BlankForm == [name |-> <<>>, email |-> <<>>, body |-> <<>>]

GoodForm == [name |-> Str1("n"), email |-> <<"u", "@", "h", ".", "c">>,
             body |-> Str1("b")]

BadEmailForm == [GoodForm EXCEPT !.email = Str3("u", "@", "h")]

DetailRequest(year, month, day, slug, method, form) ==
    Request(None, Some(year), Some(month), Some(day), Some(slug), None, None,
            method, form, FALSE)

\* the names, e-mail address and body create_comment gives a comment
Juan == <<"J", "u", "a", "n">>
Mike == <<"M", "i", "k", "e">>
CommentNames == <<Juan, Mike>>

CommentEmail == <<"u", "@", "e", ".", "c">>

CommentBody == <<"L", "o", "r", "e", "m">>

\* the URL of post i (Post.get_absolute_url)
get_absolute_url(i) ==
    [year |-> posts[i].publish.year, month |-> posts[i].publish.month,
     day |-> posts[i].publish.day, slug |-> posts[i].slug]

(***************************************************************************)
(* Actions                                                                 *)
(***************************************************************************)
TitleCode(t) == CHOOSE i \in 1..Len(Titles) : Titles[i] = t

TagCode(tags) ==
    (IF "foo" \in tags THEN 1 ELSE 0) + (IF "bar" \in tags THEN 2 ELSE 0)

\* Rows are interchangeable under renaming of ids (no query orders by id),
\* so only repositories whose rows are in non-decreasing order of
\* (publish, tags, title) are explored.
KeyLe(p, q) ==
    \/ Stamp(p.publish) < Stamp(q.publish)
    \/ /\ Stamp(p.publish) = Stamp(q.publish)
       /\ \/ TagCode(p.tags) < TagCode(q.tags)
          \/ /\ TagCode(p.tags) = TagCode(q.tags)
             /\ TitleCode(p.title) <= TitleCode(q.title)

\* Post.slug is unique_for_date="publish"
SlugFree(slug, publish) ==
    \A i \in Ids :
        ~ /\ posts[i].slug = slug
          /\ posts[i].publish.year = publish.year
          /\ posts[i].publish.month = publish.month
          /\ posts[i].publish.day = publish.day

\* A request is handled to its end before anything else happens: the
\* repository changes and requests start only when no response is pending.
Idle == response = NoResponse

\* A post is created with its tags (Post.objects.create, post.tags.add).
CreatePost(titles, slugs, publishes, tagsets, max) ==
    /\ Idle
    /\ Len(posts) < max
    /\ \E title \in titles, slug \in slugs, publish \in publishes,
          tags \in tagsets :
          LET new == [title |-> title, slug |-> slug, publish |-> publish,
                      tags |-> tags]
          IN  /\ SlugFree(slug, publish)
              /\ IF posts = <<>> THEN TRUE
                 ELSE KeyLe(posts[Len(posts)], new)
              /\ posts' = Append(posts, new)
    /\ UNCHANGED <<comments, now, response>>

\* Comments created at the same time are interchangeable in the same way:
\* only tables whose rows of one creation time are in non-decreasing order
\* of (post, name, active) are explored.
CommentCode(c) ==
    4 * c.post
      + 2 * ((CHOOSE i \in 1..Len(CommentNames) : CommentNames[i] = c.name) - 1)
      + (IF c.active THEN 1 ELSE 0)

CommentKeyLe(p, q) ==
    \/ Stamp(p.created) < Stamp(q.created)
    \/ /\ p.created = q.created
       /\ CommentCode(p) <= CommentCode(q)

\* A comment is created on a post (create_comment: Comment.objects.create);
\* created is set to the time of creation (auto_now_add).
CreateComment(max) ==
    /\ Idle
    /\ Len(comments) < max
    /\ \E post \in Ids, name \in Range(CommentNames), active \in BOOLEAN :
          LET new == [post |-> post, name |-> name, email |-> CommentEmail,
                      body |-> CommentBody, created |-> now,
                      active |-> active]
          IN  /\ IF comments = <<>> THEN TRUE
                 ELSE CommentKeyLe(comments[Len(comments)], new)
              /\ comments' = Append(comments, new)
    /\ UNCHANGED <<posts, now, response>>

\* timezone.now() advances
Tick ==
    /\ Idle
    /\ \E k \in 1..(Len(Clock) - 1) : now = Clock[k] /\ now' = Clock[k + 1]
    /\ UNCHANGED <<posts, comments, response>>

PostList(request) ==
    /\ Idle
    /\ response' \in post_list(request)
    /\ UNCHANGED <<posts, comments, now>>

PostDetail(request) ==
    /\ Idle
    /\ response' \in post_detail(request)
    /\ UNCHANGED <<posts, comments, now>>

ShowLatestPosts ==
    /\ Idle
    /\ response' \in show_latest_posts
    /\ UNCHANGED <<posts, comments, now>>

ShowArchives ==
    /\ Idle
    /\ response' \in show_archives
    /\ UNCHANGED <<posts, comments, now>>

\* the response is sent
Deliver ==
    /\ ~Idle
    /\ response' = NoResponse
    /\ UNCHANGED <<posts, comments, now>>

Init ==
    /\ posts = <<>>
    /\ comments = <<>>
    /\ now = Clock[1]
    /\ response = NoResponse

\* the slug of a new post where the slug is not the point: one per post
NextSlug == {<<"post", Len(posts) + 1>>}

\* the slugs posts are given under Spec
Slugs == {<<"post", 1>>, <<"post", 2>>}

\* the method and form data of a request to post_detail
Submissions ==
    {[method |-> "GET", form |-> None]}
        \cup {[method |-> "POST", form |-> Some(f)] :
                f \in {BlankForm, GoodForm, BadEmailForm}}

\* the URLs of the existing posts (Post.get_absolute_url) and one of no post
DetailUrls ==
    {get_absolute_url(i) : i \in Ids}
        \cup {[year |-> 2020, month |-> 3, day |-> 9, slug |-> <<"post", 1>>]}

(***************************************************************************)
(* Spec: every read path over a small repository.                          *)
(***************************************************************************)
Next ==
    \/ CreatePost({TitleA, TitleX}, Slugs, {T3, T4}, {{}, {"foo"}}, MaxPosts)
    \/ Tick
    \/ \E route \in {MainRoute} \cup TagRoutes \cup DateRoutes,
          query \in {None, Some(Str1("a"))},
          page \in {None, Some(Str1("2"))}, ajax \in BOOLEAN :
          PostList(ListRequest(route, query, page, ajax))
    \/ \E t \in {T2, T3, T4}, slug \in Slugs, sub \in Submissions :
          PostDetail(DetailRequest(t.year, t.month, t.day, slug,
                                   sub.method, sub.form))
    \/ ShowLatestPosts
    \/ ShowArchives
    \/ Deliver

Spec == Init /\ [][Next]_vars

(***************************************************************************)
(* SpecDetail: the detail view and its similar posts over a repository     *)
(* large enough for the cut to four posts to matter.                       *)
(***************************************************************************)
NextDetail ==
    \/ CreatePost({TitleA}, NextSlug, {T2, T3, T4},
                  {{}, {"foo"}, {"bar"}, {"foo", "bar"}}, MaxDetailPosts)
    \/ \E url \in DetailUrls :
          PostDetail(DetailRequest(url.year, url.month, url.day, url.slug,
                                   "GET", None))
    \/ Deliver

SpecDetail == Init /\ [][NextDetail]_vars

(***************************************************************************)
(* SpecPage: the paginated listings (plain, by tag, by month, searched)    *)
(* over a repository of more than one page, with every page token.         *)
(***************************************************************************)
PageRequests ==
    {ListRequest(MainRoute, None, page, ajax) :
        page \in PageTokens, ajax \in BOOLEAN}
    \cup
    {ListRequest(route, None, page, ajax) :
        route \in {[tag_slug |-> Some("foo"), year |-> None, month |-> None],
                   [tag_slug |-> None, year |-> Some(2020),
                    month |-> Some(2)],
                   [tag_slug |-> None, year |-> Some(2020),
                    month |-> Some(3)]},
        page \in {None, Some(Str1("2")), Some(Str1("3"))},
        ajax \in BOOLEAN}
    \cup
    {ListRequest(MainRoute, query, page, ajax) :
        query \in {Some(Str1("a")), Some(Str1("q"))},
        page \in {None, Some(Str1("2")), Some(Str1("3"))},
        ajax \in BOOLEAN}

NextPage ==
    \/ CreatePost({TitleA}, NextSlug, {T1, T3, T4}, {{}, {"foo"}},
                  MaxPagePosts)
    \/ \E request \in PageRequests : PostList(request)
    \/ Deliver

SpecPage == Init /\ [][NextPage]_vars

(***************************************************************************)
(* SpecSearch: the text query over every base filter, with titles that     *)
(* score above, at and below the threshold.                                *)
(***************************************************************************)
SearchRequests ==
    {ListRequest(route, query, page, ajax) :
        route \in {MainRoute,
                   [tag_slug |-> Some("foo"), year |-> None, month |-> None],
                   [tag_slug |-> Some("baz"), year |-> None, month |-> None],
                   [tag_slug |-> None, year |-> Some(2020),
                    month |-> Some(3)],
                   [tag_slug |-> None, year |-> Some(2020),
                    month |-> Some(13)]},
        query \in Queries,
        page \in {None, Some(Str1("2"))}, ajax \in BOOLEAN}

NextSearch ==
    \/ CreatePost({TitleA, TitleAb, TitleAh}, NextSlug, {T3, T4},
                  {{}, {"foo"}}, MaxSearchPosts)
    \/ Tick
    \/ \E request \in SearchRequests : PostList(request)
    \/ Deliver

SpecSearch == Init /\ [][NextSearch]_vars

(***************************************************************************)
(* SpecCall: post_list called with every combination of its keyword        *)
(* arguments tag_slug, year and month.  The routes of urls.py supply a tag *)
(* slug or a year and month, never both; the signature of the view admits  *)
(* both, and its branch structure decides between them.                    *)
(***************************************************************************)
CallRequests ==
    {Request(tag_slug, year, month, None, None, query, None, "GET", None,
             ajax) :
        tag_slug \in {None, Some("foo"), Some("baz")},
        year \in {None, Some(0), Some(2020)},
        month \in {None, Some(0), Some(3), Some(13)},
        query \in {None, Some(Str1("a"))},
        ajax \in BOOLEAN}

NextCall ==
    \/ CreatePost({TitleA}, NextSlug, {T3, T4}, {{}, {"foo"}}, MaxPosts)
    \/ Tick
    \/ \E request \in CallRequests : PostList(request)
    \/ Deliver

SpecCall == Init /\ [][NextCall]_vars

(***************************************************************************)
(* SpecComments: the detail view of posts that have comments, active and   *)
(* inactive, of one author or two, created at one time or at two, with     *)
(* GET requests and comment submissions.                                   *)
(***************************************************************************)
NextComments ==
    \/ CreatePost({TitleA}, NextSlug, {T3, T4}, {{}}, MaxCommentPosts)
    \/ CreateComment(MaxComments)
    \/ Tick
    \/ \E url \in DetailUrls, sub \in Submissions :
          PostDetail(DetailRequest(url.year, url.month, url.day, url.slug,
                                   sub.method, sub.form))
    \/ Deliver

SpecComments == Init /\ [][NextComments]_vars

(***************************************************************************)
(* SpecArchive: the archive widget over posts of March 2019, of two days   *)
(* of March 2020 and of April 2020, seen on 2 March and on 1 April 2020.   *)
(***************************************************************************)
NextArchive ==
    \/ CreatePost({TitleA}, NextSlug, {T0, T2, T3, T4}, {{}, {"foo"}},
                  MaxArchivePosts)
    \/ Tick
    \/ ShowArchives
    \/ Deliver

SpecArchive == Init /\ [][NextArchive]_vars

(***************************************************************************)
(* Notions the claims are stated in, written from the claims and not from  *)
(* the operators above.                                                    *)
(***************************************************************************)
\* post i is visible: its publish timestamp is not later than now
Visible(i) == Stamp(posts[i].publish) <= Stamp(now)

Rendered == response.status = 200 /\ response.template # ""

ListRendered == response.view = "post_list" /\ Rendered

DetailRendered == response.view = "post_detail" /\ Rendered

\* every post a response shows, on whatever path
ShownPosts ==
    Range(response.posts) \cup Range(response.similar_posts)
        \cup Range(response.latest_posts) \cup Range(response.post)

(***************************************************************************)
(* C1.  No read path returns a post whose publish timestamp is later than  *)
(* now: not the main, tag, archive-month or search listing, not the        *)
(* similar posts of post_detail, not the detail lookup, not                *)
(* show_latest_posts, and show_archives lists only months of visible       *)
(* posts.  A post published exactly at now is visible: on the first page   *)
(* of the unfiltered listing it is shown unless the page is filled with    *)
(* such posts, and the detail lookup finds it (no 404).                    *)
(***************************************************************************)
C1_FuturePostsInvisible ==
    /\ \A i \in ShownPosts : Visible(i)
    /\ \A d \in Range(response.dates) :
          \E i \in Ids : /\ Visible(i)
                         /\ posts[i].publish.year = d.year
                         /\ posts[i].publish.month = d.month
    /\ (/\ ListRendered
        /\ response.request.tag_slug = None
        /\ response.request.year = None
        /\ response.request.query = None
        /\ response.number = 1)
       => \/ \A i \in Ids : posts[i].publish = now
                              => i \in Range(response.posts)
          \/ /\ Len(response.posts) = PerPage
             /\ \A i \in Range(response.posts) : posts[i].publish = now
    /\ \A i \in Ids :
          (/\ response.view = "post_detail"
           /\ posts[i].publish = now
           /\ response.request.post = Some(posts[i].slug)
           /\ response.request.year = Some(posts[i].publish.year)
           /\ response.request.month = Some(posts[i].publish.month)
           /\ response.request.day = Some(posts[i].publish.day))
          => /\ response.status # 404
             /\ Rendered => response.post = Some(i)

\* a future post exists while each read path answers: the listing (plain,
\* by tag, by month, searched), the similar posts, and the two widgets
C1_Witness ==
    /\ \E i \in Ids : ~Visible(i) /\ "foo" \in posts[i].tags
    /\ \E i \in Ids : posts[i].publish = now
    /\ ListRendered
    /\ response.request.tag_slug = Some("foo")
    /\ response.request.query # None
    /\ response.posts # <<>>

(***************************************************************************)
(* C2.  post_detail(year, month, day, slug) answers NotFound if and only   *)
(* if no post exists with that slug, that publish year, month and day and  *)
(* publish <= now; otherwise it renders with context post equal to the     *)
(* matching post.                                                          *)
(***************************************************************************)
\* the posts the claim's condition speaks of, for the request answered
C2_Matching ==
    {i \in Ids :
        /\ Visible(i)
        /\ response.request.post = Some(posts[i].slug)
        /\ response.request.year = Some(posts[i].publish.year)
        /\ response.request.month = Some(posts[i].publish.month)
        /\ response.request.day = Some(posts[i].publish.day)}

C2_DetailNotFoundIff ==
    response.view = "post_detail" =>
        /\ response.status = 404 <=> C2_Matching = {}
        /\ C2_Matching # {} =>
              /\ DetailRendered
              /\ \E i \in C2_Matching : response.post = Some(i)

\* the part of C2 that the code keeps: requests that submit no valid comment
C2_HoldsWithoutValidComment ==
    (/\ response.view = "post_detail"
     /\ ~(/\ response.request.method = "POST"
          /\ response.request.form = Some(GoodForm)))
    => C2_DetailNotFoundIff

(***************************************************************************)
(* C3.  The similar posts of a reference post R come in descending order   *)
(* of same_tags, the number of tags a candidate shares with R, and among   *)
(* equal same_tags in descending order of publish; a candidate with more   *)
(* shared tags is above one with fewer whatever their publish times; and   *)
(* the result is the first 4 of that order: a candidate that is left out   *)
(* ranks above no post of the result, and is left out only of a result of  *)
(* 4 posts.                                                                *)
(***************************************************************************)
\* the number of tags post i shares with post r
Shared(r, i) == Cardinality(posts[i].tags \cap posts[r].tags)

\* post a ranks strictly above post b for the reference r
RanksAbove(r, a, b) ==
    \/ Shared(r, a) > Shared(r, b)
    \/ /\ Shared(r, a) = Shared(r, b)
       /\ Stamp(posts[a].publish) > Stamp(posts[b].publish)

\* the candidates for the reference r: the other visible posts that share
\* a tag with it
Candidates(r) ==
    {i \in Ids \ {r} : Visible(i) /\ Shared(r, i) > 0}

C3_SimilarRanking ==
    DetailRendered =>
        LET r == response.post[1]
            sp == response.similar_posts
        IN  /\ \A j, k \in 1..Len(sp) :
                  j < k => ~RanksAbove(r, sp[k], sp[j])
            /\ \A j, k \in 1..Len(sp) :
                  Shared(r, sp[j]) > Shared(r, sp[k]) => j < k
            /\ \A c \in Candidates(r) \ Range(sp) :
                  /\ Len(sp) = MaxSimilar
                  /\ \A j \in 1..Len(sp) : ~RanksAbove(r, c, sp[j])

\* four similar posts are shown, a fifth candidate is left out, and an
\* older post with more shared tags stands above a newer one with fewer
C3_Witness ==
    /\ DetailRendered
    /\ Len(response.similar_posts) = MaxSimilar
    /\ Candidates(response.post[1]) \ Range(response.similar_posts) # {}
    /\ \E j, k \in 1..Len(response.similar_posts) :
          /\ j < k
          /\ Shared(response.post[1], response.similar_posts[j])
                > Shared(response.post[1], response.similar_posts[k])
          /\ Stamp(posts[response.similar_posts[j]].publish)
                < Stamp(posts[response.similar_posts[k]].publish)

(***************************************************************************)
(* C4.  The similar posts of a reference post R are at most 4, never       *)
(* contain R, never contain a post that shares no tag with R (so there are *)
(* none when R has no tags or no other visible post shares a tag), and     *)
(* contain no post twice.                                                  *)
(***************************************************************************)
C4_SimilarBounds ==
    DetailRendered =>
        LET r == response.post[1]
            sp == response.similar_posts
        IN  /\ Len(sp) <= 4
            /\ r \notin Range(sp)
            /\ \A i \in Range(sp) : posts[i].tags \cap posts[r].tags # {}
            /\ \A j, k \in 1..Len(sp) : j # k => sp[j] # sp[k]
            /\ (posts[r].tags = {} \/ Candidates(r) = {}) => sp = <<>>

\* more than four candidates exist and four are shown
C4_Witness ==
    /\ DetailRendered
    /\ Len(response.similar_posts) = 4
    /\ Cardinality(Candidates(response.post[1])) > 4

\* R has tags and other posts are visible, but none shares a tag: no
\* similar posts
C4_WitnessNoOverlap ==
    /\ DetailRendered
    /\ posts[response.post[1]].tags # {}
    /\ \E i \in Ids \ {response.post[1]} : Visible(i) /\ posts[i].tags # {}
    /\ response.similar_posts = <<>>

(***************************************************************************)
(* The listing claims speak of the result set of the request answered, its *)
(* order and its pages.  These are written here from the claims.           *)
(***************************************************************************)
Req == response.request

\* the request selects the month filter / the tag filter
ByMonth == Req.year # None /\ Req.month # None

ByTagOnly == ~ByMonth /\ Req.tag_slug # None

\* a query parameter that is empty or all blanks fails the validation
QueryBlank == Req.query # None /\ \A k \in 1..Len(Req.query[1]) :
                                     Req.query[1][k] = " "

QueryGiven == Req.query # None /\ ~QueryBlank

\* the query text the titles are compared with
QueryText == Strip(Req.query[1])

\* the request has a result set: its tag exists, its month is a month of
\* the calendar, and its query, if any, is valid
HasResultSet ==
    /\ response.view = "post_list"
    /\ ByTagOnly => \E i \in Ids : Req.tag_slug[1] \in posts[i].tags
    /\ ByMonth => /\ Req.year[1] \in 1..9999
                  /\ Req.month[1] \in 1..12
    /\ ~QueryBlank

\* post i passes the base filter of the request
InBase(i) ==
    IF ByMonth
    THEN /\ posts[i].publish.year = Req.year[1]
         /\ posts[i].publish.month = Req.month[1]
    ELSE IF ByTagOnly THEN Req.tag_slug[1] \in posts[i].tags
    ELSE TRUE

\* the title of post i scores strictly more than 0.1 against the query
ScoresAboveThreshold(i) ==
    LET sim == Similarity(posts[i].title, QueryText)
    IN  10 * sim[1] > sim[2]

ResultSet ==
    {i \in Ids : /\ Visible(i)
                 /\ InBase(i)
                 /\ QueryGiven => ScoresAboveThreshold(i)}

\* the key the listing is ordered by, descending, as a fraction: the
\* similarity of the title to the query when there is a query, the publish
\* time otherwise
ListKey(i) ==
    IF QueryGiven
    THEN Similarity(posts[i].title, QueryText)
    ELSE <<Stamp(posts[i].publish), 1>>

\* post a comes strictly before post b in the listing's order
ListedBefore(a, b) ==
    LET x == ListKey(a)
        y == ListKey(b)
    IN  x[1] * y[2] > y[1] * x[2]

\* the number of the last page of a result set of n posts
LastPage(n) == IF n = 0 THEN 1 ELSE (n + 3) \div 4

\* the integer a numeral page token denotes
TokenNumber(page) ==
    CASE page = Some(Str1("0")) -> 0
      [] page = Some(Str2("-", "1")) -> 0 - 1
      [] page = Some(Str1("1")) -> 1
      [] page = Some(Str1("2")) -> 2
      [] page = Some(Str2(" ", "2")) -> 2
      [] page = Some(Str1("3")) -> 3

\* items can be the posts at positions 4(k-1)+1 .. min(4k, N) of the
\* result set in its order: they are that many distinct posts of the set,
\* none is listed before an earlier one, and the j-th has at most
\* 4(k-1)+j-1 posts that must precede it and at most N-(4(k-1)+j) that
\* must follow it
IsPageOf(items, k) ==
    \A rs \in {ResultSet} :
    \A key \in {[i \in rs |-> ListKey(i)]} :
    LET n == Cardinality(rs)
        first == 4 * (k - 1) + 1
        last == IF 4 * k < n THEN 4 * k ELSE n
        before(a, b) == key[a][1] * key[b][2] > key[b][1] * key[a][2]
    IN  /\ Len(items) = IF last >= first THEN last - first + 1 ELSE 0
        /\ Range(items) \subseteq rs
        /\ \A j, l \in 1..Len(items) :
              j < l => items[j] # items[l] /\ ~before(items[l], items[j])
        /\ \A j \in 1..Len(items) :
              /\ Cardinality({x \in rs : before(x, items[j])})
                    <= first + j - 2
              /\ Cardinality({x \in rs : before(items[j], x)})
                    <= n - (first + j - 1)

FullPage == ListRendered /\ response.template = "blog/post/list.html"

Fragment == ListRendered /\ response.template = "blog/post/list_ajax.html"

\* the empty successful answer to a partial fetch
EmptyAnswer ==
    response.status = 200 /\ response.template = "" /\ response.posts = <<>>

(***************************************************************************)
(* C5.  When the page token is a number above the last page of the result  *)
(* set, a full-page request is answered with the last page (status 200)    *)
(* and a partial-fetch request with the empty successful response; also    *)
(* when the result set is empty and has the single page 1.                 *)
(***************************************************************************)
C5_PageBeyondLast ==
    (/\ HasResultSet
     /\ Req.page \in IntegerPages
     /\ TokenNumber(Req.page) > LastPage(Cardinality(ResultSet)))
    => IF Req.ajax THEN EmptyAnswer
       ELSE /\ FullPage
            /\ response.number = LastPage(Cardinality(ResultSet))
            /\ IsPageOf(response.posts, LastPage(Cardinality(ResultSet)))

\* page "3" of five posts: the full page shows the one post of page 2
C5_Witness ==
    /\ HasResultSet
    /\ Req.page = Some(Str1("3"))
    /\ Cardinality(ResultSet) = 5
    /\ FullPage
    /\ Len(response.posts) = 1

(***************************************************************************)
(* C6.  When the page token is absent or no integer numeral ("", "abc",    *)
(* "2.0"), the response is page 1 of the result set, for a full-page and   *)
(* for a partial-fetch request alike: never an error, never the empty      *)
(* partial-fetch response.                                                 *)
(***************************************************************************)
C6_NonIntegerPageIsFirst ==
    (HasResultSet /\ Req.page \in NonIntegerPages)
    => /\ IF Req.ajax THEN Fragment ELSE FullPage
       /\ response.number = 1
       /\ IsPageOf(response.posts, 1)

\* a partial fetch of page "abc" of five posts shows the first four
C6_Witness ==
    /\ HasResultSet
    /\ Req.page = Some(Str3("a", "b", "c"))
    /\ Req.ajax
    /\ Cardinality(ResultSet) = 5
    /\ Len(response.posts) = 4

(***************************************************************************)
(* C7.  A listing without a text query over N visible posts shows, on      *)
(* every page k in range, the posts at positions 4(k-1)+1 .. min(4k, N) of *)
(* the posts in descending order of publish: at most 4 posts a page,       *)
(* has_previous iff k > 1, has_next iff k < the number of pages, in the    *)
(* main, tag and month listings alike; and the pages of the listing        *)
(* together hold each visible post exactly once, in that order.            *)
(***************************************************************************)
RECURSIVE PagesUpTo(_, _)
PagesUpTo(ordered, k) ==
    IF k = 0 THEN <<>>
    ELSE PagesUpTo(ordered, k - 1) \o PageItems(ordered, k)

C7_PagesOfListing ==
    /\ (ListRendered /\ Req.query = None) =>
          LET n == Cardinality(ResultSet)
              k == response.number
          IN  /\ 1 <= k /\ k <= LastPage(n)
              /\ response.num_pages = LastPage(n)
              /\ (/\ Req.page \in IntegerPages
                  /\ TokenNumber(Req.page) \in 1..LastPage(n))
                 => k = TokenNumber(Req.page)
              /\ IsPageOf(response.posts, k)
              /\ Len(response.posts) <= 4
              /\ response.has_previous <=> k > 1
              /\ response.has_next <=> k < LastPage(n)
    /\ Idle =>
          LET visible == {i \in Ids : Visible(i)}
              newerFirst == {<<a, b>> \in visible \X visible :
                               Stamp(posts[a].publish)
                                  > Stamp(posts[b].publish)}
          IN  \A ordered \in Linearisations(visible, newerFirst) :
                 PagesUpTo(ordered, NumPages(Len(ordered))) = ordered

\* page 2 of five tagged posts in the tag listing: one post, a previous
\* page and no next page
C7_Witness ==
    /\ ListRendered
    /\ Req.query = None
    /\ Req.tag_slug = Some("foo")
    /\ Req.page = Some(Str1("2"))
    /\ Cardinality(ResultSet) = 5
    /\ Len(response.posts) = 1
    /\ response.has_previous /\ ~response.has_next

(***************************************************************************)
(* C10.  total_results of a full-page response is the number of posts of   *)
(* the whole filtered and ranked result set, whatever the page token; a    *)
(* valid query that matches no post gives a successful response with no    *)
(* items and, on a full page, total_results = 0.                           *)
(***************************************************************************)
C10_TotalResults ==
    /\ FullPage => response.total_results = Some(Cardinality(ResultSet))
    /\ (HasResultSet /\ QueryGiven /\ ResultSet = {}) =>
          /\ response.status = 200
          /\ response.posts = <<>>
          /\ ~Req.ajax => FullPage /\ response.total_results = Some(0)

\* a query that matches five posts, page "3" clamped to page 2: one item
\* is shown and total_results is 5
C10_Witness ==
    /\ FullPage
    /\ QueryGiven
    /\ Req.page = Some(Str1("3"))
    /\ response.total_results = Some(5)
    /\ Len(response.posts) = 1

\* a query that matches none of the visible posts: total_results is 0
C10_WitnessNoMatch ==
    /\ FullPage
    /\ QueryGiven
    /\ \E i \in Ids : Visible(i)
    /\ response.total_results = Some(0)

C9_InvalidSearchNotFound ==
    response.view = "post_list" =>
        /\ QueryBlank => response.status = 404 /\ response.posts = <<>>
        /\ Req.query = None => response.reason # "Invalid search"

\* the part of C9 that the code keeps: requests whose month is a month of
\* the calendar
C9_HoldsForValidMonths ==
    (/\ response.view = "post_list"
     /\ ByMonth => Req.month[1] \in 1..12)
    => C9_InvalidSearchNotFound

(***************************************************************************)
(* C11.  For every year and month the archive route can supply (any        *)
(* non-negative integers), a request with both present is answered with    *)
(* the visible posts published in that calendar year and month, whatever   *)
(* their day: the request succeeds, no post of another month is listed,    *)
(* and without a query the listing counts exactly the posts of the month.  *)
(***************************************************************************)
\* the visible posts published in the year and month of the request
C11_MonthPosts ==
    {i \in Ids : /\ Visible(i)
                 /\ posts[i].publish.year = Req.year[1]
                 /\ posts[i].publish.month = Req.month[1]}

C11_ArchiveMonthFilter ==
    (response.view = "post_list" /\ ByMonth /\ ~QueryBlank) =>
        /\ response.status = 200
        /\ Range(response.posts) \subseteq C11_MonthPosts
        /\ (FullPage /\ Req.query = None) =>
              /\ response.total_results = Some(Cardinality(C11_MonthPosts))
              /\ response.number = 1 =>
                    \/ Range(response.posts) = C11_MonthPosts
                    \/ Len(response.posts) = 4

\* the part of C11 that the code keeps: years 1..9999 with months 1..12
C11_HoldsForCalendarMonths ==
    (ByMonth => Req.year[1] \in 1..9999 /\ Req.month[1] \in 1..12)
    => C11_ArchiveMonthFilter

\* the March listing shows the March post and not the April post, both
\* visible
C11_CalendarMonthReached ==
    /\ FullPage /\ ByMonth
    /\ Req.year = Some(2020) /\ Req.month = Some(3)
    /\ C11_MonthPosts # {}
    /\ Range(response.posts) = C11_MonthPosts
    /\ \E i \in Ids : Visible(i) /\ posts[i].publish.month = 4

(***************************************************************************)
(* C12.  When a tag slug is present and the month filter is not selected,  *)
(* post_list answers NotFound if no Tag has that slug; otherwise its       *)
(* result set is exactly the visible posts that carry the tag: no visible  *)
(* post without the tag is listed, and none with the tag is left out (the  *)
(* listing counts them all and its pages are pages of them).               *)
(***************************************************************************)
\* a Tag with the slug of the request exists: some post, visible or not,
\* was given it
C12_TagKnown == \E i \in Ids : Req.tag_slug[1] \in posts[i].tags

\* the visible posts that carry the tag of the request
C12_TagPosts ==
    {i \in Ids : Visible(i) /\ Req.tag_slug[1] \in posts[i].tags}

C12_TagFilter ==
    (response.view = "post_list" /\ ByTagOnly) =>
        /\ ~C12_TagKnown => response.status = 404 /\ response.posts = <<>>
        /\ (C12_TagKnown /\ ~QueryBlank) =>
              /\ response.status = 200
              /\ Range(response.posts) \subseteq C12_TagPosts
              /\ (FullPage /\ Req.query = None) =>
                    /\ response.total_results
                          = Some(Cardinality(C12_TagPosts))
                    /\ response.tag = Req.tag_slug
                    /\ response.number = 1 =>
                          \/ Range(response.posts) = C12_TagPosts
                          \/ Len(response.posts) = 4

\* the listing of tag foo shows the visible post that carries it and not
\* the visible post that does not
C12_Witness ==
    /\ FullPage /\ ByTagOnly
    /\ Req.tag_slug = Some("foo") /\ Req.query = None
    /\ C12_TagPosts # {}
    /\ Range(response.posts) = C12_TagPosts
    /\ \E i \in Ids : Visible(i) /\ "foo" \notin posts[i].tags

\* a slug no Tag has is answered with NotFound while visible posts exist;
\* and a tag carried by future posts only lists nothing
C12_WitnessUnknownTag ==
    /\ response.view = "post_list" /\ ByTagOnly
    /\ ~C12_TagKnown
    /\ response.status = 404
    /\ \E i \in Ids : Visible(i)

C12_WitnessFutureOnly ==
    /\ FullPage /\ ByTagOnly
    /\ C12_TagKnown /\ C12_TagPosts = {}
    /\ response.posts = <<>>
    /\ \E i \in Ids : Visible(i)

(***************************************************************************)
(* C13.  The month filter and the tag filter are never both applied to one *)
(* request.  When year and month are both present the month filter is      *)
(* applied and the tag slug is neither resolved nor used: no NotFound      *)
(* comes from the tag lookup, the renderer is told the month and no tag,   *)
(* and the listing is that of the month, tagged or not.  The renderer is   *)
(* never told both a date and a tag.                                       *)
(***************************************************************************)
C13_FiltersExclusive ==
    response.view = "post_list" =>
        /\ ~(response.date # None /\ response.tag # None)
        /\ ByMonth =>
              /\ response.reason # "No Tag matches the given query."
              /\ Range(response.posts) \subseteq C11_MonthPosts
              /\ FullPage =>
                    /\ response.tag = None
                    /\ response.date # None
                    /\ response.date[1].year = Req.year[1]
                    /\ response.date[1].month = Req.month[1]
                    /\ Req.query = None =>
                          response.total_results
                             = Some(Cardinality(C11_MonthPosts))

\* the part of C13 that the code keeps: a year and a month that are not 0
C13_HoldsForNonZero ==
    (ByMonth => Req.year[1] # 0 /\ Req.month[1] # 0)
    => C13_FiltersExclusive

\* a call with year 2020, month 3 and the slug of no Tag lists the March
\* posts, one of them untagged, while a post carries the tag foo
C13_MonthOverTagReached ==
    /\ FullPage /\ ByMonth
    /\ Req.tag_slug = Some("baz")
    /\ Req.month = Some(3)
    /\ response.posts # <<>>
    /\ \E i \in Ids : "foo" \in posts[i].tags

(***************************************************************************)
(* C14.  Every request to post_list or post_detail, whatever its route     *)
(* parameters, query, page token, method, form data and transport, ends    *)
(* as a rendered result (full page, fragment or the empty partial-fetch    *)
(* answer) or as NotFound; no unhandled exception is reachable.            *)
(***************************************************************************)
C14_RenderedOrNotFound ==
    response.view \in {"post_list", "post_detail"} =>
        \/ FullPage
        \/ Fragment
        \/ EmptyAnswer
        \/ DetailRendered
        \/ response.status = 404

\* the comment form submitted, if any, is complete and well-formed
C14_ValidCommentPosted ==
    /\ Req.method = "POST"
    /\ Req.form # None
    /\ CommentFormIsValid(Req.form[1])

\* the part of C14 that the code keeps: listings whose year and month, if
\* selected, are of the calendar, and detail requests that submit no valid
\* comment to a visible post
C14_HoldsForOtherRequests ==
    (/\ response.view = "post_list" =>
           ~(/\ ByMonth /\ Req.year[1] # 0 /\ Req.month[1] # 0
             /\ ~(Req.year[1] \in 1..9999 /\ Req.month[1] \in 1..12))
     /\ response.view = "post_detail" =>
           ~(C14_ValidCommentPosted /\ C2_Matching # {}))
    => C14_RenderedOrNotFound

(***************************************************************************)
(* C15.  A POST to post_detail for a visible post persists a new Comment   *)
(* if and only if the submitted form validates.  When it validates, the    *)
(* step adds exactly one Comment, of the post viewed and with the name,    *)
(* e-mail and body submitted, and answers with a rendered page that uses   *)
(* the persisted comment; when it does not, the comments are unchanged.    *)
(***************************************************************************)
\* r answers a comment submission
C15_Submitted(r) ==
    /\ r.view = "post_detail"
    /\ r.request.method = "POST"
    /\ r.request.form # None

\* the visible posts the URL of r's request names
C15_Viewed(r) ==
    {i \in Ids :
        /\ Visible(i)
        /\ r.request.post = Some(posts[i].slug)
        /\ r.request.year = Some(posts[i].publish.year)
        /\ r.request.month = Some(posts[i].publish.month)
        /\ r.request.day = Some(posts[i].publish.day)}

C15_CommentPersistedIffValid ==
    [][\A i \in C15_Viewed(response') :
          (Idle /\ C15_Submitted(response')) =>
             LET data == response'.request.form[1]
                 n == Len(comments)
             IN  IF CommentFormIsValid(data)
                 THEN /\ Len(comments') = n + 1
                      /\ SubSeq(comments', 1, n) = comments
                      /\ comments'[n + 1].post = i
                      /\ comments'[n + 1].name = data.name
                      /\ comments'[n + 1].email = data.email
                      /\ comments'[n + 1].body = data.body
                      /\ response'.status = 200
                      /\ response'.template = "blog/post/detail.html"
                      /\ response'.new_comment = Some(n + 1)
                 ELSE comments' = comments]_vars

\* the part of C15 that the code keeps: a form that does not validate
\* leaves the comments as they are and the page is rendered with the form
C15_InvalidFormKeepsComments ==
    [][\A i \in C15_Viewed(response') :
          (/\ Idle /\ C15_Submitted(response')
           /\ ~CommentFormIsValid(response'.request.form[1]))
          => /\ comments' = comments
             /\ response'.status = 200
             /\ response'.post = Some(i)]_vars

\* what the code does with a form that validates: nothing is persisted and
\* the request fails
C15_ValidFormFails ==
    [][\A i \in C15_Viewed(response') :
          (/\ Idle /\ C15_Submitted(response')
           /\ CommentFormIsValid(response'.request.form[1]))
          => /\ comments' = comments
             /\ response'.status = 500]_vars

\* a valid form was submitted for a visible post that has a comment
C15_ValidSubmissionReached ==
    /\ C15_Submitted(response)
    /\ C15_Viewed(response) # {}
    /\ CommentFormIsValid(Req.form[1])
    /\ \E c \in CommentIds : comments[c].post \in C15_Viewed(response)

(***************************************************************************)
(* C16.  The comments post_detail shows for post P are exactly the active  *)
(* comments of P, each once, newest first by creation time: no inactive    *)
(* comment and no comment of another post is shown, and several comments   *)
(* of one author are all shown.                                            *)
(***************************************************************************)
C16_ActiveCommentsNewestFirst ==
    DetailRendered =>
        LET shown == response.comments
        IN  /\ Range(shown)
                 = {c \in CommentIds : /\ comments[c].post = response.post[1]
                                       /\ comments[c].active}
            /\ \A j, l \in 1..Len(shown) :
                  j < l => /\ shown[j] # shown[l]
                           /\ Stamp(comments[shown[j]].created)
                                 >= Stamp(comments[shown[l]].created)

\* two active comments of one author on P, the later one shown first, and
\* an inactive comment on P that is not shown
C16_Witness ==
    /\ DetailRendered
    /\ Len(response.comments) = 2
    /\ comments[response.comments[1]].name
          = comments[response.comments[2]].name
    /\ Stamp(comments[response.comments[1]].created)
          > Stamp(comments[response.comments[2]].created)
    /\ \E c \in CommentIds : /\ comments[c].post = response.post[1]
                             /\ ~comments[c].active

\* an active comment of another post is not shown
C16_WitnessOtherPost ==
    /\ DetailRendered
    /\ response.comments # <<>>
    /\ \E c \in CommentIds : /\ comments[c].post # response.post[1]
                             /\ comments[c].active

(***************************************************************************)
(* C17.  show_archives yields exactly one entry for each distinct (year,   *)
(* month) in which a visible post was published, latest month first:       *)
(* several visible posts of one month give one entry, and a month whose    *)
(* posts are all in the future gives none.                                 *)
(***************************************************************************)
\* the (year, month) pairs of the visible posts
C17_VisibleMonths ==
    {<<posts[i].publish.year, posts[i].publish.month>> :
        i \in {j \in Ids : Visible(j)}}

C17_ArchiveEntries ==
    response.view = "show_archives" =>
        LET shown == response.dates
        IN  /\ {<<shown[k].year, shown[k].month>> : k \in 1..Len(shown)}
                 = C17_VisibleMonths
            /\ Len(shown) = Cardinality(C17_VisibleMonths)
            /\ \A j, l \in 1..Len(shown) :
                  j < l => \/ shown[j].year > shown[l].year
                           \/ /\ shown[j].year = shown[l].year
                              /\ shown[j].month > shown[l].month

\* on 2 March 2020, with posts of 1 and 2 March 2020, of March 2019 and a
\* future post of April 2020: March 2020, then March 2019, and no April
C17_Witness ==
    /\ response.view = "show_archives"
    /\ Len(response.dates) = 2
    /\ response.dates[1].year = 2020
    /\ response.dates[2].year = 2019
    /\ \E i, j \in Ids : /\ Visible(i) /\ Visible(j)
                         /\ posts[i].publish.month = 3
                         /\ posts[j].publish.month = 3
                         /\ posts[i].publish.year = 2020
                         /\ posts[j].publish.year = 2020
                         /\ posts[i].publish.day # posts[j].publish.day
    /\ \E i \in Ids : ~Visible(i) /\ posts[i].publish.month = 4

(***************************************************************************)
(* C18.  In post_list an integer page token below 1 ("0", "-1") is an      *)
(* out-of-range page, not a non-numeric one: a full-page request is        *)
(* answered with the last page of the result set, which is not page 1      *)
(* when there are more than four results, and a partial-fetch request      *)
(* with the empty successful response.                                     *)
(***************************************************************************)
C18_PageBelowOne ==
    (/\ HasResultSet
     /\ Req.page \in IntegerPages
     /\ TokenNumber(Req.page) < 1)
    => \A last \in {LastPage(Cardinality(ResultSet))} :
          IF Req.ajax THEN EmptyAnswer
          ELSE /\ FullPage
               /\ response.number = last
               /\ response.num_pages = last
               /\ ~response.has_next
               /\ IsPageOf(response.posts, last)

\* page "0" of five posts, full page: page 2 with its one post
C18_Witness ==
    /\ HasResultSet
    /\ Req.page = Some(Str1("0"))
    /\ Cardinality(ResultSet) = 5
    /\ FullPage
    /\ response.number = 2
    /\ Len(response.posts) = 1

\* page "-1" of five posts, partial fetch: the empty answer
C18_WitnessPartial ==
    /\ HasResultSet
    /\ Req.page = Some(Str2("-", "1"))
    /\ Cardinality(ResultSet) = 5
    /\ Req.ajax
    /\ EmptyAnswer

====
